---- MODULE Spec2Model ----
(***************************************************************************)
(* Model of add_photo_locations_from_google_history.py: the LocationHistory *)
(* index (load, sort, timestamps array, timestamp -> record dict), the     *)
(* nearest-timestamp query, and the two callers add_location_to_photo and  *)
(* add_location_to_photo_osxphotos.                                        *)
(*                                                                         *)
(* Python values are encoded as follows.                                   *)
(*   - None / a missing dict key: the empty sequence <<>>; a present value *)
(*     v: the one-element sequence <<v>>.                                  *)
(*   - the "timestampMs" field of a raw record: [kind, val, digits] with   *)
(*     kind "absent" (key missing), "int" (a JSON number, value val) or    *)
(*     "str" (a JSON string of decimal digits, most significant first, as  *)
(*     the Takeout export writes it).                                      *)
(*   - a float obtained by dividing an integer n by d: [num |-> n,         *)
(*     den |-> d]; int() of it is num \div den (all values are >= 0 here). *)
(*     Binary floating-point rounding is not modelled.                     *)
(*   - a datetime: its microseconds since the epoch.                       *)
(*   - a raised exception: a string naming it.                             *)
(***************************************************************************)
EXTENDS Integers, Sequences, FiniteSets

\* ------------------------------------------------------------------ bounds
MaxRecords == 3

\* ------------------------------------------------------- program constants
DEFAULT_TIME_DELTA == 60

\* ------------------------------------------------------------ input pools
None == <<>>
Some(v) == <<v>>

AbsentTs == [kind |-> "absent", val |-> 0, digits |-> <<>>]
IntTs(n) == [kind |-> "int", val |-> n, digits |-> <<>>]
StrTs(d) == [kind |-> "str", val |-> 0, digits |-> d]

Raw(ts, lat, lon) == [timestampMs |-> ts, latitudeE7 |-> lat, longitudeE7 |-> lon]

\* The raw records the history files are made of: "timestampMs" missing, a
\* string of one or two digits, or a number; coordinates missing, or 10 and 20
\* degrees in the export's fixed-point form. Two records share the timestamp
\* "5" and differ in their coordinates.
RawRecords ==
    { Raw(AbsentTs, None, None),
      Raw(StrTs(<<1>>), None, None),
      Raw(StrTs(<<5>>), None, None),
      Raw(StrTs(<<5>>), Some(100000000), Some(200000000)),
      Raw(StrTs(<<3, 1>>), Some(100000000), Some(200000000)),
      Raw(IntTs(5), None, None),
      Raw(IntTs(31), Some(100000000), Some(200000000)) }

RECURSIVE SeqsUpTo(_, _)
SeqsUpTo(S, n) ==
    IF n = 0 THEN { <<>> }
    ELSE LET shorter == SeqsUpTo(S, n - 1)
         IN  shorter \cup { Append(s, x) : s \in { t \in shorter : Len(t) = n - 1 }, x \in S }

\* Decoded contents of a history file: a JSON object with or without the
\* "locations" key.
HistoryFiles ==
    { [locations |-> None] } \cup
    { [locations |-> Some(l)] : l \in SeqsUpTo(RawRecords, MaxRecords) }

\* ------------------------------------------------------- Python primitives
Abs(x) == IF x < 0 THEN -x ELSE x

\* int(s) for a string s of decimal digits.
RECURSIVE ParseInt(_)
ParseInt(d) ==
    IF d = <<>> THEN 0
    ELSE 10 * ParseInt(SubSeq(d, 1, Len(d) - 1)) + d[Len(d)]

\* int(x["timestampMs"])
IntOfTs(ts) == IF ts.kind = "int" THEN ts.val ELSE ParseInt(ts.digits)

\* a < b for two str: by code point, a proper prefix first.
RECURSIVE StrLess(_, _)
StrLess(a, b) ==
    IF b = <<>> THEN FALSE
    ELSE IF a = <<>> THEN TRUE
    ELSE IF a[1] # b[1] THEN a[1] < b[1]
    ELSE StrLess(Tail(a), Tail(b))

\* a < b for two sort keys of the same type (int with int, str with str).
KeyLess(a, b) ==
    IF a.kind = "int" THEN a.val < b.val ELSE StrLess(a.digits, b.digits)

\* int / int as a float, and int() of such a float.
Div(n, d) == [num |-> n, den |-> d]
IntOfFloat(f) == f.num \div f.den

\* msec_to_datetime(msec, utc=True)
msec_to_datetime(msec) == msec * 1000

\* int(timestamp.timestamp() * 1000) for a datetime at or after the epoch.
DatetimeToMsec(dt) == dt \div 1000

\* ------------------------------------------------------------ LocationHistory
\* The body of the for loop of _load_location_history for one record that has
\* its "timestampMs" key: adds "datetime", "latitude" and "longitude".
AnnotateLocation(location) ==
    [timestampMs |-> location.timestampMs,
     latitudeE7  |-> location.latitudeE7,
     longitudeE7 |-> location.longitudeE7,
     datetime    |-> msec_to_datetime(IntOfTs(location.timestampMs)),
     latitude    |-> IF location.latitudeE7 # None
                     THEN Some(Div(location.latitudeE7[1], 10000000)) ELSE None,
     longitude   |-> IF location.longitudeE7 # None
                     THEN Some(Div(location.longitudeE7[1], 10000000)) ELSE None]

\* One insertion of the stable sort: x goes before the first element whose
\* key is greater than x's key, that is, after every element with an equal key.
RECURSIVE InsertByKey(_, _)
InsertByKey(x, s) ==
    IF s = <<>> THEN <<x>>
    ELSE IF KeyLess(x.timestampMs, s[1].timestampMs) THEN <<x>> \o s
    ELSE <<s[1]>> \o InsertByKey(x, Tail(s))

\* sorted(l, key=lambda x: x["timestampMs"]) for keys of one type: the stable
\* sort by the RAW key, a str compared as a str and an int as an int.
RECURSIVE SortedByKey(_)
SortedByKey(l) ==
    IF l = <<>> THEN <<>>
    ELSE InsertByKey(l[Len(l)], SortedByKey(SubSeq(l, 1, Len(l) - 1)))

\* Whether the sort compares an int key with a str key. A comparison sort of
\* two or more elements links all of them by comparisons, so a list holding
\* both types compares one of each, and that comparison raises TypeError.
MixedKeys(l) ==
    \E i, j \in DOMAIN l : l[i].timestampMs.kind # l[j].timestampMs.kind

MalformedInput == "ValueError: Location history not found in JSON file"
SortTypeError == "TypeError: '<' not supported between instances of 'int' and 'str'"
EmptySequence == "ValueError: min() arg is an empty sequence"

\* Variant of LoadLocationHistory that skips a record without "timestampMs"
\* instead of failing.
LoadLocationHistorySkippingBad(f) ==
    IF f.locations = None THEN [raised |-> Some(MalformedInput), value |-> <<>>]
    ELSE LET l    == f.locations[1]
             good == SelectSeq(l, LAMBDA x : x.timestampMs.kind # "absent")
             ann  == [i \in DOMAIN good |-> AnnotateLocation(good[i])]
         IN  IF MixedKeys(ann) THEN [raised |-> Some(SortTypeError), value |-> <<>>]
             ELSE [raised |-> None, value |-> SortedByKey(ann)]

\* Variant of LoadLocationHistory that returns the records in file order.
LoadLocationHistoryUnsorted(f) ==
    IF f.locations = None THEN [raised |-> Some(MalformedInput), value |-> <<>>]
    ELSE LET l == f.locations[1]
         IN  IF \E i \in DOMAIN l : l[i].timestampMs.kind = "absent"
             THEN [raised |-> Some(MalformedInput), value |-> <<>>]
             ELSE LET ann == [i \in DOMAIN l |-> AnnotateLocation(l[i])]
                  IN  IF MixedKeys(ann)
                      THEN [raised |-> Some(SortTypeError), value |-> <<>>]
                      ELSE [raised |-> None, value |-> ann]

\* LocationHistory._load_location_history on the decoded file f: the list it
\* returns, or the exception it raises. The loop stops at the first record
\* without "timestampMs" (KeyError, re-raised as ValueError), before any sort.
LoadLocationHistory(f) ==
    IF f.locations = None THEN [raised |-> Some(MalformedInput), value |-> <<>>]
    ELSE LET l == f.locations[1]
         IN  IF \E i \in DOMAIN l : l[i].timestampMs.kind = "absent"
             THEN [raised |-> Some(MalformedInput), value |-> <<>>]
             ELSE LET ann == [i \in DOMAIN l |-> AnnotateLocation(l[i])]
                  IN  IF MixedKeys(ann)
                      THEN [raised |-> Some(SortTypeError), value |-> <<>>]
                      ELSE [raised |-> None, value |-> SortedByKey(ann)]

\* LocationHistory._extract_timestamps_from_history
ExtractTimestamps(location_history) ==
    [i \in DOMAIN location_history |-> IntOfTs(location_history[i].timestampMs)]

\* LocationHistory._location_history_to_dict_by_timestamp: the dict
\* comprehension, a later entry overwriting an earlier one with the same key.
RECURSIVE DictByTimestamp(_)
DictByTimestamp(location_history) ==
    IF location_history = <<>> THEN [t \in {} |-> <<>>]
    ELSE LET n == Len(location_history)
             d == DictByTimestamp(SubSeq(location_history, 1, n - 1))
             x == location_history[n]
             k == IntOfTs(x.timestampMs)
         IN  [t \in DOMAIN d \cup {k} |-> IF t = k THEN x ELSE d[t]]

\* LocationHistory.__init__: the object, or the exception of the load.
NewLocationHistory(f) ==
    LET loaded == LoadLocationHistory(f)
    IN  IF loaded.raised # None THEN [raised |-> loaded.raised, object |-> None]
        ELSE [raised |-> None,
              object |-> Some([location_history |-> loaded.value,
                               timestamps       |-> ExtractTimestamps(loaded.value),
                               location_dict    |-> DictByTimestamp(loaded.value)])]

\* bisect.bisect_left(a, x), positions counted from 0 as in Python.
RECURSIVE BisectLoop(_, _, _, _)
BisectLoop(a, x, lo, hi) ==
    IF lo < hi
    THEN LET mid == (lo + hi) \div 2
         IN  IF a[mid + 1] < x THEN BisectLoop(a, x, mid + 1, hi)
             ELSE BisectLoop(a, x, lo, mid)
    ELSE lo

bisect_left(a, x) == BisectLoop(a, x, 0, Len(a))

\* The slice a[lo:hi] for 0 <= lo, clipped to the list.
Slice(a, lo, hi) ==
    LET top == IF hi < Len(a) THEN hi ELSE Len(a)
    IN  IF lo >= top THEN <<>> ELSE SubSeq(a, lo + 1, top)

Max(a, b) == IF a > b THEN a ELSE b

\* min(w, key=lambda t: abs(timestamp - t)) for a non-empty w: the first
\* element, left to right, with the smallest key.
RECURSIVE MinByDistance(_, _)
MinByDistance(w, timestamp) ==
    IF Len(w) = 1 THEN w[1]
    ELSE LET best == MinByDistance(SubSeq(w, 1, Len(w) - 1), timestamp)
             t    == w[Len(w)]
         IN  IF Abs(timestamp - t) < Abs(timestamp - best) THEN t ELSE best

\* The candidates of _nearest_location_from_timestamp.
Window(timestamps, timestamp) ==
    LET i == bisect_left(timestamps, timestamp)
    IN  Slice(timestamps, Max(0, i - 1), i + 2)

\* Variant of NearestLocationFromTimestamp that answers 0 for an empty
\* window instead of raising.
NearestTimestampOrZero(self, timestamp) ==
    LET w == Window(self.timestamps, timestamp)
    IN  IF w = <<>> THEN [raised |-> None, value |-> 0]
        ELSE [raised |-> None, value |-> MinByDistance(w, timestamp)]

\* LocationHistory._nearest_location_from_timestamp: the timestamp chosen, or
\* the ValueError of min() on an empty window.
NearestLocationFromTimestamp(self, timestamp) ==
    LET w == Window(self.timestamps, timestamp)
    IN  IF w = <<>> THEN [raised |-> Some(EmptySequence), value |-> 0]
        ELSE [raised |-> None, value |-> MinByDistance(w, timestamp)]

\* LocationHistory.nearest_location(timestamp): (record, delta in seconds as a
\* float), or the exception raised.
nearest_location(self, timestamp) ==
    LET msec    == DatetimeToMsec(timestamp)
        nearest == NearestLocationFromTimestamp(self, msec)
    IN  IF nearest.raised # None
        THEN [raised |-> nearest.raised, record |-> None, delta |-> None]
        ELSE IF nearest.value \notin DOMAIN self.location_dict
        THEN [raised |-> Some("KeyError"), record |-> None, delta |-> None]
        ELSE LET nearest_record == self.location_dict[nearest.value]
             IN  [raised |-> None,
                  record |-> Some(nearest_record),
                  delta  |-> Some(Div(Abs(IntOfTs(nearest_record.timestampMs) - msec), 1000))]

\* ------------------------------------------------------ add_location_to_photo
\* What the Photos library does when a located photo is written back
\* (PhotosLibrary().photos(uuid=...), the location setter, album.add): it is
\* outside this program, so every outcome is possible.
LibraryOutcomes == { "updated", "no photo for uuid", "exception" }

\* Variant of AddLocationToPhoto that accepts a delta equal to the threshold.
AddLocationInclusive(photo, self, delta, dry_run, library) ==
    LET near == nearest_location(self, photo.date)
    IN  IF near.raised # None
        THEN [raised |-> near.raised, ret |-> None,
              nearest_location |-> None, nearest_delta |-> None]
        ELSE LET nearest_delta == IntOfFloat(near.delta[1])
                 ret == IF nearest_delta > delta THEN 0
                        ELSE IF ~dry_run /\ library # "updated" THEN 0
                        ELSE 1
             IN  [raised |-> None, ret |-> Some(ret),
                  nearest_location |-> near.record,
                  nearest_delta |-> Some(nearest_delta)]

\* add_location_to_photo(photo, location_history, delta, dry_run): the value
\* returned or the exception raised, with the locals nearest_location and
\* nearest_delta (after int()) it computed.
AddLocationToPhoto(photo, self, delta, dry_run, library) ==
    LET near == nearest_location(self, photo.date)
    IN  IF near.raised # None
        THEN [raised |-> near.raised, ret |-> None,
              nearest_location |-> None, nearest_delta |-> None]
        ELSE LET nearest_delta == IntOfFloat(near.delta[1])
                 ret == IF nearest_delta >= delta THEN 0
                        ELSE IF ~dry_run /\ library # "updated" THEN 0
                        ELSE 1
             IN  [raised |-> None, ret |-> Some(ret),
                  nearest_location |-> near.record,
                  nearest_delta |-> Some(nearest_delta)]

\* photo.date of the photos (microseconds since the epoch) and the --delta
\* values (seconds) the calls are made with.
PhotoDates == { 3000, 5000, 18999, 31000, 1030000, 1031000, 2031000 }
Deltas == { 1, 2 }

\* ---------------------------------------------------------------- the state
VARIABLES
    history_file,       \* decoded contents of the file given to LocationHistory()
    location_history,   \* the LocationHistory object of the caller, or None
    raised,             \* the exception LocationHistory() raised, or None
    call,               \* the last add_location_to_photo call: inputs and outcome
    shuffled,           \* a second LocationHistory() built from the same records reordered
    readers,            \* the calls in progress of concurrent readers of one index
    LOCATION_HISTORY,   \* the module global of add_location_to_photo_osxphotos
    osx                 \* the last add_location_to_photo_osxphotos call

vars == << history_file, location_history, raised, call, shuffled, readers,
           LOCATION_HISTORY, osx >>

\* The records of the file the index was built from, in input order.
InputRecords == history_file[1].locations[1]

\* location_history = LocationHistory(filename)
Construct(f) ==
    /\ history_file = None
    /\ history_file' = Some(f)
    /\ LET new == NewLocationHistory(f)
       IN  /\ location_history' = new.object
           /\ raised' = new.raised
    /\ UNCHANGED << call, shuffled, readers, LOCATION_HISTORY, osx >>

\* add_location_to_photo(photo, location_history, delta, dry_run)
Match(date, delta, dry_run, library) ==
    /\ location_history # None
    /\ call' = Some([date    |-> date,
                     msec    |-> DatetimeToMsec(date),
                     delta   |-> delta,
                     dry_run |-> dry_run,
                     outcome |-> AddLocationToPhoto([date |-> date], location_history[1],
                                                    delta, dry_run, library)])
    /\ UNCHANGED << history_file, location_history, raised, shuffled, readers,
                    LOCATION_HISTORY, osx >>

Init ==
    /\ history_file = None
    /\ location_history = None
    /\ raised = None
    /\ call = None
    /\ shuffled = None
    /\ readers = <<>>
    /\ LOCATION_HISTORY = None
    /\ osx = None

Next ==
    \/ \E f \in HistoryFiles : Construct(f)
    \/ \E date \in PhotoDates, delta \in Deltas :
          \/ Match(date, delta, TRUE, "updated")
          \/ \E library \in LibraryOutcomes : Match(date, delta, FALSE, library)

Spec == Init /\ [][Next]_vars

\* ------------------------------------------- duplicated timestamps (SpecDup)
MaxDupRecords == 4

\* Files of string-stamped records with repeated timestamps: two different
\* records stamped "5" and two stamped "31".
DupRecords ==
    { Raw(StrTs(<<5>>), None, None),
      Raw(StrTs(<<5>>), Some(100000000), Some(200000000)),
      Raw(StrTs(<<3, 1>>), None, None),
      Raw(StrTs(<<3, 1>>), Some(100000000), Some(200000000)) }

DupFiles == { [locations |-> Some(l)] : l \in SeqsUpTo(DupRecords, MaxDupRecords) }

\* Queries at the two duplicated timestamps, 5 ms and 31 ms.
DupDates == { 5000, 31000 }

NextDup ==
    \/ \E f \in DupFiles : Construct(f)
    \/ \E date \in DupDates, delta \in Deltas : Match(date, delta, TRUE, "updated")

SpecDup == Init /\ [][NextDup]_vars

\* -------------------------------------------- reordered input (SpecShuffle)
\* Files whose records all have a timestamp and come in non-decreasing
\* numeric timestamp order: the already-sorted inputs.
SortedFiles ==
    { f \in HistoryFiles :
        /\ f.locations # None
        /\ \A i \in DOMAIN f.locations[1] : f.locations[1][i].timestampMs.kind # "absent"
        /\ \A i \in 1 .. Len(f.locations[1]) - 1 :
              IntOfTs(f.locations[1][i].timestampMs)
                  <= IntOfTs(f.locations[1][i + 1].timestampMs) }

Reorderings(n) == { p \in [1 .. n -> 1 .. n] : \A i, j \in 1 .. n : p[i] = p[j] => i = j }

\* LocationHistory() on the records of the first file in another order.
ConstructShuffled ==
    /\ history_file # None
    /\ history_file[1].locations # None
    /\ shuffled = None
    /\ \E p \in Reorderings(Len(InputRecords)) :
          LET reordered == [i \in DOMAIN InputRecords |-> InputRecords[p[i]]]
          IN  shuffled' = Some([locations |-> reordered,
                                new |-> NewLocationHistory([locations |-> Some(reordered)])])
    /\ UNCHANGED << history_file, location_history, raised, call, readers,
                    LOCATION_HISTORY, osx >>

\* nearest_location(photo.date) on both objects.
QueryBoth(date) ==
    /\ location_history # None
    /\ shuffled # None
    /\ shuffled[1].new.object # None
    /\ call' = Some([date     |-> date,
                     msec     |-> DatetimeToMsec(date),
                     sorted   |-> nearest_location(location_history[1], date),
                     shuffled |-> nearest_location(shuffled[1].new.object[1], date)])
    /\ UNCHANGED << history_file, location_history, raised, shuffled, readers,
                    LOCATION_HISTORY, osx >>

NextShuffle ==
    \/ \E f \in SortedFiles : Construct(f)
    \/ ConstructShuffled
    \/ \E date \in PhotoDates : QueryBoth(date)

SpecShuffle == Init /\ [][NextShuffle]_vars

\* --------------------------------------- concurrent readers (SpecReaders)
NumReaders == 2
MaxReaderRecords == 2

ReaderRecords ==
    { Raw(StrTs(<<1>>), None, None),
      Raw(StrTs(<<5>>), None, None),
      Raw(StrTs(<<3, 1>>), Some(100000000), Some(200000000)) }

ReaderFiles ==
    { [locations |-> Some(l)] : l \in SeqsUpTo(ReaderRecords, MaxReaderRecords) }

ReaderDates == { 18999, 1031000 }

IdleReader ==
    [pc |-> "idle", date |-> 0, delta |-> 0, msec |-> 0, i |-> 0, nearest |-> 0,
     outcome |-> [raised |-> None, ret |-> None,
                  nearest_location |-> None, nearest_delta |-> None]]

\* Reader r enters add_location_to_photo(photo, location_history, delta,
\* dry_run=True) and nearest_location computes msec from photo.date.
ReaderCall(r, date, delta) ==
    /\ readers[r].pc = "idle"
    /\ readers' = [readers EXCEPT ![r] =
            [IdleReader EXCEPT !.pc = "bisect", !.date = date, !.delta = delta,
                               !.msec = DatetimeToMsec(date)]]
    /\ UNCHANGED << history_file, location_history, raised, call, shuffled,
                    LOCATION_HISTORY, osx >>

\* i = bisect_left(self.timestamps, timestamp)
ReaderBisect(r) ==
    /\ readers[r].pc = "bisect"
    /\ readers' = [readers EXCEPT ![r].pc = "min",
            ![r].i = bisect_left(location_history[1].timestamps, readers[r].msec)]
    /\ UNCHANGED << history_file, location_history, raised, call, shuffled,
                    LOCATION_HISTORY, osx >>

\* Variant of ReaderMin that takes the chosen candidate out of self.timestamps
\* (a destructive selection such as list.remove on the shared list).
ReaderMinConsuming(r) ==
    /\ readers[r].pc = "min"
    /\ LET self == location_history[1]
           i    == readers[r].i
           w    == Slice(self.timestamps, Max(0, i - 1), i + 2)
       IN  IF w = <<>>
           THEN /\ readers' = [readers EXCEPT ![r].pc = "done",
                                   ![r].outcome.raised = Some(EmptySequence)]
                /\ UNCHANGED location_history
           ELSE LET t == MinByDistance(w, readers[r].msec)
                    k == CHOOSE j \in DOMAIN self.timestamps : self.timestamps[j] = t
                IN  /\ readers' = [readers EXCEPT ![r].pc = "lookup", ![r].nearest = t]
                    /\ location_history' =
                          Some([self EXCEPT !.timestamps =
                                    SubSeq(self.timestamps, 1, k - 1)
                                        \o SubSeq(self.timestamps, k + 1,
                                                  Len(self.timestamps))])
    /\ UNCHANGED << history_file, raised, call, shuffled, LOCATION_HISTORY, osx >>

\* min(self.timestamps[max(0, i - 1) : i + 2], key=...): the slice is taken
\* from the list as it is now, at the position found before.
ReaderMin(r) ==
    /\ readers[r].pc = "min"
    /\ LET self == location_history[1]
           i    == readers[r].i
           w    == Slice(self.timestamps, Max(0, i - 1), i + 2)
       IN  IF w = <<>>
           THEN readers' = [readers EXCEPT ![r].pc = "done",
                                ![r].outcome.raised = Some(EmptySequence)]
           ELSE readers' = [readers EXCEPT ![r].pc = "lookup",
                                ![r].nearest = MinByDistance(w, readers[r].msec)]
    /\ UNCHANGED << history_file, location_history, raised, call, shuffled,
                    LOCATION_HISTORY, osx >>

\* nearest_record = self.location_dict[nearest] and the delta in seconds.
ReaderLookup(r) ==
    /\ readers[r].pc = "lookup"
    /\ LET self == location_history[1]
           nearest_record == self.location_dict[readers[r].nearest]
       IN  readers' = [readers EXCEPT ![r].pc = "compare",
               ![r].outcome.nearest_location = Some(nearest_record),
               ![r].outcome.nearest_delta =
                   Some(IntOfFloat(Div(Abs(IntOfTs(nearest_record.timestampMs)
                                            - readers[r].msec), 1000)))]
    /\ UNCHANGED << history_file, location_history, raised, call, shuffled,
                    LOCATION_HISTORY, osx >>

\* if nearest_delta >= delta: return 0 ... return 1 (dry run)
ReaderCompare(r) ==
    /\ readers[r].pc = "compare"
    /\ readers' = [readers EXCEPT ![r].pc = "done",
            ![r].outcome.ret =
                Some(IF readers[r].outcome.nearest_delta[1] >= readers[r].delta
                     THEN 0 ELSE 1)]
    /\ UNCHANGED << history_file, location_history, raised, call, shuffled,
                    LOCATION_HISTORY, osx >>

\* The caller takes the result; the reader is free for its next photo.
ReaderReturn(r) ==
    /\ readers[r].pc = "done"
    /\ readers' = [readers EXCEPT ![r] = IdleReader]
    /\ UNCHANGED << history_file, location_history, raised, call, shuffled,
                    LOCATION_HISTORY, osx >>

\* One index, built from any of the files, and the readers idle.
InitReaders ==
    /\ \E f \in ReaderFiles :
          /\ history_file = Some(f)
          /\ location_history = NewLocationHistory(f).object
          /\ raised = NewLocationHistory(f).raised
    /\ call = None
    /\ shuffled = None
    /\ readers = [r \in 1 .. NumReaders |-> IdleReader]
    /\ LOCATION_HISTORY = None
    /\ osx = None

NextReaders ==
    \E r \in 1 .. NumReaders :
        \/ \E date \in ReaderDates, delta \in Deltas : ReaderCall(r, date, delta)
        \/ ReaderBisect(r)
        \/ ReaderMin(r)
        \/ ReaderLookup(r)
        \/ ReaderCompare(r)
        \/ ReaderReturn(r)

SpecReaders == InitReaders /\ [][NextReaders]_vars

\* ------------------------------- add_location_to_photo_osxphotos (SpecOsx)
MaxOsxRecords == 2

OsxRecords ==
    { Raw(AbsentTs, None, None),
      Raw(StrTs(<<5>>), Some(100000000), Some(200000000)),
      Raw(IntTs(31), None, None) }

\* Decoded contents of the file OSXPHOTOS_LOCATION_HISTORY names.
OsxFiles ==
    { [locations |-> None] } \cup
    { [locations |-> Some(l)] : l \in SeqsUpTo(OsxRecords, MaxOsxRecords) }

\* OSXPHOTOS_LOCATION_HISTORY: not set, set to a path that is no file, or set
\* to the path of a file.
HistoryEnv == { "unset", "not a file", "file" }

\* OSXPHOTOS_LOCATION_DELTA: not set, or set (an environment value is a str).
DeltaEnv == { None, Some("30") }

\* Photos taken 5 ms, 60.03 s and 61 s after the epoch.
OsxDates == { 5000, 60030000, 61000000 }

EnvError == "ValueError: OSXPHOTOS_LOCATION_HISTORY not set or file does not exist"
CompareTypeError == "TypeError: '>=' not supported between instances of 'int' and 'str'"

\* results.exported of the call: no file, one photo file, or one .mov file.
Exported == { "nothing", "photo", "movie" }

NoneTypeError == "TypeError: '>=' not supported between instances of 'NoneType' and 'int'"

\* exiftool_add_location(result, photo, lat, lon) for the exported files: a
\* photo file takes the hemisphere from "lat >= 0", which raises for a record
\* without coordinates; a movie file takes the two values as text.
ExiftoolAddLocation(exported, nearest_record) ==
    IF exported = "photo" /\ nearest_record.latitude = None
    THEN [raised |-> Some(NoneTypeError), ret |-> None]
    ELSE [raised |-> None, ret |-> Some(1)]

\* What one call does after the history-file check, given the index it uses:
\* the value returned or the exception raised.
OsxQuery(self, delta_env, date, shared, exported) ==
    IF shared THEN [raised |-> None, ret |-> Some(0)]
    ELSE LET near == nearest_location(self, date)
         IN  IF near.raised # None THEN [raised |-> near.raised, ret |-> None]
             ELSE IF delta_env # None
             THEN [raised |-> Some(CompareTypeError), ret |-> None]
             ELSE IF IntOfFloat(near.delta[1]) >= DEFAULT_TIME_DELTA
             THEN [raised |-> None, ret |-> Some(0)]
             ELSE ExiftoolAddLocation(exported, near.record[1])

\* Variant of OsxPostFunction without the "if LOCATION_HISTORY is None" test:
\* every call that passes the check loads the file again.
OsxPostFunctionReloading(history_env, f, delta_env, date, shared, exported) ==
    LET entry == [before |-> LOCATION_HISTORY, passed_check |-> history_env = "file",
                  loading |-> FALSE, ctor_raised |-> None, date |-> date,
                  shared |-> shared, delta_env |-> delta_env,
                  exported |-> exported, raised |-> None, ret |-> None]
        new == NewLocationHistory(f)
    IN  /\ UNCHANGED << history_file, location_history, raised, call, shuffled, readers >>
        /\ IF history_env # "file"
           THEN /\ osx' = Some([entry EXCEPT !.raised = Some(EnvError)])
                /\ UNCHANGED LOCATION_HISTORY
           ELSE IF new.raised # None
           THEN /\ osx' = Some([entry EXCEPT !.loading = TRUE,
                                    !.ctor_raised = new.raised, !.raised = new.raised])
                /\ UNCHANGED LOCATION_HISTORY
           ELSE LET out == OsxQuery(new.object[1], delta_env, date, shared, exported)
                IN  /\ LOCATION_HISTORY' = new.object
                    /\ osx' = Some([entry EXCEPT !.loading = TRUE,
                                        !.raised = out.raised, !.ret = out.ret])

\* add_location_to_photo_osxphotos(photo, results, verbose): one call, with
\* the environment and the file contents it finds.
OsxPostFunction(history_env, f, delta_env, date, shared, exported) ==
    LET entry == [before |-> LOCATION_HISTORY, passed_check |-> history_env = "file",
                  loading |-> FALSE, ctor_raised |-> None, date |-> date,
                  shared |-> shared, delta_env |-> delta_env,
                  exported |-> exported, raised |-> None, ret |-> None]
        new == NewLocationHistory(f)
    IN  /\ UNCHANGED << history_file, location_history, raised, call, shuffled, readers >>
        /\ IF history_env # "file"
           THEN /\ osx' = Some([entry EXCEPT !.raised = Some(EnvError)])
                /\ UNCHANGED LOCATION_HISTORY
           ELSE IF LOCATION_HISTORY = None /\ new.raised # None
           THEN /\ osx' = Some([entry EXCEPT !.loading = TRUE,
                                    !.ctor_raised = new.raised, !.raised = new.raised])
                /\ UNCHANGED LOCATION_HISTORY
           ELSE LET used == IF LOCATION_HISTORY = None THEN new.object
                            ELSE LOCATION_HISTORY
                    out  == OsxQuery(used[1], delta_env, date, shared, exported)
                IN  /\ LOCATION_HISTORY' = used
                    /\ osx' = Some([entry EXCEPT !.loading = (LOCATION_HISTORY = None),
                                        !.raised = out.raised, !.ret = out.ret])

NextOsx ==
    \E history_env \in HistoryEnv, f \in OsxFiles, delta_env \in DeltaEnv,
       date \in OsxDates, shared \in BOOLEAN, exported \in Exported :
        OsxPostFunction(history_env, f, delta_env, date, shared, exported)

SpecOsx == Init /\ [][NextOsx]_vars

\* ------------------------------------------------------------------ claims
\* The last call returned (it raised nothing).
Returned == call # None /\ call[1].outcome.raised = None

\* The timestamp of the record the last call found nearest.
ChosenTimestamp == IntOfTs(call[1].outcome.nearest_location[1].timestampMs)

\* C2: after construction from records whose timestamps are all integers or
\* decimal strings, the timestamps array is in non-decreasing numeric order.
C2_TimestampsNonDecreasing ==
    location_history # None =>
        LET ts == location_history[1].timestamps
        IN  \A k \in 1 .. Len(ts) - 1 : ts[k] <= ts[k + 1]

\* C1: on a non-empty index the timestamp chosen by the nearest query is at
\* minimal absolute distance to the query among ALL timestamps of the index.
C1_NearestAgreesWithLinearScan ==
    Returned =>
        \A k \in DOMAIN location_history[1].timestamps :
            Abs(ChosenTimestamp - call[1].msec)
                <= Abs(location_history[1].timestamps[k] - call[1].msec)

\* C3: on a non-empty index a dry-run match returns, and it returns 1 exactly
\* when the millisecond distance to the record found, divided by 1000 and
\* truncated, is strictly below the threshold; otherwise it returns 0.
C3_MatchIffStrictlyBelowThreshold ==
    (call # None /\ call[1].dry_run /\ location_history[1].timestamps # <<>>) =>
        /\ Returned
        /\ LET seconds == Abs(ChosenTimestamp - call[1].msec) \div 1000
           IN  call[1].outcome.ret = Some(IF seconds < call[1].delta THEN 1 ELSE 0)

\* C3 witness: a dry-run call whose nearest record is exactly the threshold
\* away, which is a no-match.
C3_AtThresholdIsNoMatch ==
    /\ Returned /\ call[1].dry_run
    /\ Abs(ChosenTimestamp - call[1].msec) = 1000 * call[1].delta
    /\ call[1].outcome.ret = Some(0)

\* C6: on an index built from zero records every call ends in the error of the
\* empty candidate window; it returns neither a record nor 0.
C6_EmptyIndexRaises ==
    (call # None /\ location_history[1].timestamps = <<>>) =>
        /\ call[1].outcome.raised = Some(EmptySequence)
        /\ call[1].outcome.ret = None
        /\ call[1].outcome.nearest_location = None

\* C6 witness: a call made on an index built from zero records.
C6_CalledOnEmptyIndex ==
    /\ call # None
    /\ location_history[1].location_history = <<>>
    /\ call[1].outcome.raised # None

\* C7: construction is all-or-nothing. A file with a record lacking its
\* timestamp, at any position, yields the malformed-input error and no object;
\* an object exists only when every record had a timestamp, and then it holds
\* every record of the file.
C7_ConstructionAllOrNothing ==
    history_file # None =>
        LET f == history_file[1]
        IN  /\ (f.locations # None /\ \E i \in DOMAIN f.locations[1] :
                    f.locations[1][i].timestampMs.kind = "absent")
                  => (location_history = None /\ raised = Some(MalformedInput))
            /\ location_history # None =>
                  /\ f.locations # None
                  /\ \A i \in DOMAIN f.locations[1] :
                        f.locations[1][i].timestampMs.kind # "absent"
                  /\ Len(location_history[1].location_history) = Len(f.locations[1])
                  /\ Len(location_history[1].timestamps) = Len(f.locations[1])
                  /\ raised = None

\* C7 witness: the record without a timestamp comes after a well-formed one,
\* and construction failed with the malformed-input error.
C7_LaterRecordMalformed ==
    /\ history_file # None /\ history_file[1].locations # None
    /\ Len(InputRecords) >= 2
    /\ InputRecords[1].timestampMs.kind # "absent"
    /\ InputRecords[2].timestampMs.kind = "absent"
    /\ location_history = None /\ raised = Some(MalformedInput)

\* C8: when candidates of the window tie at the smallest distance, the one at
\* the lowest window position is chosen, and it is the earliest timestamp of
\* those tied.
C8_TieTakesFirstAndEarliest ==
    Returned =>
        LET w    == Window(location_history[1].timestamps, call[1].msec)
            dist(j) == Abs(w[j] - call[1].msec)
            tied == { j \in DOMAIN w : \A k \in DOMAIN w : dist(j) <= dist(k) }
        IN  /\ \E j \in tied : w[j] = ChosenTimestamp /\ \A k \in tied : j <= k
            /\ \A j \in tied : ChosenTimestamp <= w[j]

\* Positions of the input records stamped with the queried millisecond.
SameStamp == { i \in DOMAIN InputRecords :
                  IntOfTs(InputRecords[i].timestampMs) = call[1].msec }

LastOf(S) == CHOOSE i \in S : \A j \in S : j <= i

\* C4: when several input records share a timestamp, the mapping holds the one
\* last in input order, and a query exactly at that timestamp returns it.
C4_ExactQueryReturnsLastInInputOrder ==
    (call # None /\ Cardinality(SameStamp) >= 2) =>
        /\ location_history[1].location_dict[call[1].msec]
              = AnnotateLocation(InputRecords[LastOf(SameStamp)])
        /\ call[1].outcome.nearest_location
              = Some(AnnotateLocation(InputRecords[LastOf(SameStamp)]))

\* Two records of the input have the same timestamp and differ otherwise.
DistinctRecordsShareStamp ==
    \E i, j \in DOMAIN InputRecords :
        /\ InputRecords[i] # InputRecords[j]
        /\ IntOfTs(InputRecords[i].timestampMs) = IntOfTs(InputRecords[j].timestampMs)

\* C5 as stated: the sorted input and any permutation of it give the same
\* outcome of construction, the same record sequence and, for every query,
\* the same nearest record and delta.
C5_PermutationGivesIdenticalIndex ==
    shuffled # None =>
        /\ shuffled[1].new.raised = raised
        /\ shuffled[1].new.object # None =>
              shuffled[1].new.object[1].location_history
                  = location_history[1].location_history
        /\ call # None => call[1].sorted = call[1].shuffled

\* C5 amended: the two constructions always agree on the outcome, on the
\* timestamps array and, for every query, on the nearest timestamp and delta;
\* they agree on the record sequence and on the matched record whenever no two
\* different records of the input share a timestamp.
C5_PermutationAgreesUpToDuplicates ==
    shuffled # None =>
        /\ shuffled[1].new.raised = raised
        /\ shuffled[1].new.object # None =>
              /\ shuffled[1].new.object[1].timestamps = location_history[1].timestamps
              /\ ~DistinctRecordsShareStamp =>
                    shuffled[1].new.object = location_history
        /\ call # None =>
              /\ call[1].sorted.raised = call[1].shuffled.raised
              /\ call[1].sorted.delta = call[1].shuffled.delta
              /\ call[1].sorted.record # None =>
                    IntOfTs(call[1].sorted.record[1].timestampMs)
                        = IntOfTs(call[1].shuffled.record[1].timestampMs)
              /\ ~DistinctRecordsShareStamp => call[1].sorted = call[1].shuffled

\* C5 witness: three records with different timestamps were given in another
\* order than sorted, and both objects were queried.
C5_ShuffledAndQueried ==
    /\ shuffled # None /\ call # None
    /\ Len(InputRecords) = 3
    /\ ~DistinctRecordsShareStamp
    /\ shuffled[1].locations # InputRecords
    /\ call[1].sorted.record # None

\* The index as LocationHistory() built it from the readers' file.
AsConstructed == NewLocationHistory(history_file[1]).object

\* C9: the calls of concurrent readers leave the record sequence, the
\* timestamps array and the mapping as construction made them, and a finished
\* call has the outcome that call has when it runs alone on that index.
C9_ReadersLeaveIndexAndResultsAlone ==
    /\ location_history = AsConstructed
    /\ \A r \in DOMAIN readers :
          readers[r].pc = "done" =>
              readers[r].outcome =
                  AddLocationToPhoto([date |-> readers[r].date], AsConstructed[1],
                                     readers[r].delta, TRUE, "updated")

\* C9 witness: one reader has finished with a match while another is in the
\* middle of its own call.
C9_OneDoneOneInProgress ==
    /\ readers # <<>>
    /\ \E r, q \in DOMAIN readers :
          /\ readers[r].pc = "done" /\ readers[r].outcome.ret = Some(1)
          /\ readers[q].pc = "lookup" /\ readers[q].date # readers[r].date

\* C10 as stated: a call that passes the history-file check leaves
\* LOCATION_HISTORY holding an index, and a call that finds an index leaves
\* that same index in place.
C10_CheckedCallLoadsOnceForAll ==
    osx # None =>
        /\ osx[1].passed_check => LOCATION_HISTORY # None
        /\ osx[1].before # None => LOCATION_HISTORY = osx[1].before

\* C10 amended: a call that passes the history-file check and whose
\* construction does not raise leaves LOCATION_HISTORY holding an index (also
\* for a shared photo, which returns 0); a call whose construction raises, or
\* that fails the check, leaves LOCATION_HISTORY as it was; a call that finds
\* an index constructs nothing and leaves that same index in place.
C10_LoadedAtMostOnce ==
    osx # None =>
        /\ (osx[1].passed_check /\ osx[1].ctor_raised = None) => LOCATION_HISTORY # None
        /\ (osx[1].loading /\ osx[1].ctor_raised = None /\ osx[1].shared)
              => osx[1].ret = Some(0)
        /\ (osx[1].ctor_raised # None \/ ~osx[1].passed_check)
              => LOCATION_HISTORY = osx[1].before
        /\ osx[1].before # None =>
              (LOCATION_HISTORY = osx[1].before /\ ~osx[1].loading)

\* C10 witness: a call for a photo that is not shared found the index an
\* earlier call had loaded, used it and returned a match.
C10_LaterCallUsesLoadedIndex ==
    /\ osx # None
    /\ osx[1].before # None /\ ~osx[1].loading
    /\ ~osx[1].shared /\ osx[1].ret = Some(1)

====
